---- MODULE Spec2Model ----
(***************************************************************************)
(* Batch processing and retry library (retryWithBackoff, ensureCooldown,   *)
(* BatchProcessor) as a state machine over the JavaScript event loop.      *)
(*                                                                         *)
(* Time is in milliseconds.  A macrotask (a timer callback, the settlement *)
(* of a processor call) runs only when no microtask (a promise             *)
(* continuation) is pending; the clock advances to the next pending timer  *)
(* or settlement.  The output of item k is k itself; Null is the null      *)
(* output.                                                                 *)
(***************************************************************************)
EXTENDS Integers, Sequences, FiniteSets, TLC

VARIABLES
    cfg,                    \* the options of the BatchProcessor, the items and the processor
    now,                    \* Date.now()
    last429CooldownUntil,   \* the module-level cooldown timestamp
    loop,                   \* per item: the position of its retryWithBackoff call
    tr,                     \* per item: the attempts made so far (history)
    wrap,                   \* per item: the state of processItemWithTimeout's race
    itemTimer,              \* per item: the deadline of its timeout timer
    batchSt,                \* per batch: the state of the batch's race
    batchTimer,             \* per batch: the deadline of its timeout timer
    batchRes,               \* per batch: what a concurrent batch returned
    pb,                     \* the position of processBatches, and the waits it made (history)
    allResults,             \* the list processBatches accumulates and returns
    est,                    \* one estimation: its inputs, its position and its results
    db,                     \* the stored evaluations and predictions of one user and criterion
    userAbility             \* one call of calculateUserAbility: what it handed on and returned

batchVars == <<cfg, now, last429CooldownUntil, loop, tr, wrap, itemTimer,
               batchSt, batchTimer, batchRes, pb, allResults>>

appVars == <<db, userAbility>>

vars == <<batchVars, est, appVars>>

----------------------------------------------------------------------------
(* Program constants *)

DefaultBatchSize == 2
DefaultBatchDelayMs == 3000
DefaultItemTimeoutMs == 180000
DefaultBatchTimeoutMs == 300000
DefaultMaxRetries == 4
DefaultBaseRetryDelay == 1200
DefaultConcurrentBatches == 1
DefaultRateDelayMs == 30000
RateJitterMs == 1500
ServerJitterMs == 400

(* Bounds of the model *)

MaxItems == 3

Null == 0
None == -1

\* the iterations followed of a main loop whose position stays where it is
MaxRounds == MaxItems + 1

AllItems == 1..MaxItems
AllBatches == 1..MaxItems

----------------------------------------------------------------------------
(* What one call of the processor does: it resolves with the item's output *)
(* or with null, rejects with an error, throws synchronously, or never     *)
(* settles.  An error carries e.status (0: none), the three digits of a    *)
(* "[ddd " marker in its message (0: none), whether the message contains   *)
(* "[429", and the seconds of a retryDelay hint in it (None: no hint).     *)

Outcome(kind, status, code, mark, retry) ==
    [kind |-> kind, status |-> status, code |-> code, mark |-> mark, retry |-> retry]

Ok == Outcome("ok", 0, 0, FALSE, None)
NullResult == Outcome("null", 0, 0, FALSE, None)
Hang == Outcome("hang", 0, 0, FALSE, None)
SyncThrow == Outcome("throw", 0, 0, FALSE, None)
E429 == Outcome("err", 429, 0, FALSE, None)
E429Hint == Outcome("err", 0, 429, TRUE, 2)
E429Zero == Outcome("err", 429, 0, FALSE, 0)
E500 == Outcome("err", 500, 0, FALSE, None)
E503Msg == Outcome("err", 0, 503, FALSE, None)
EFatal == Outcome("err", 400, 0, FALSE, None)
\* new Error('Max retries exceeded')
MaxRetriesExceeded == Outcome("exceeded", 0, 0, FALSE, None)

IsError(o) == o.kind \in {"err", "throw"}

\* parseRetryDelayMs: the hint in milliseconds, None for null
parseRetryDelayMs(e) == IF e.retry >= 0 THEN e.retry * 1000 ELSE None

\* JavaScript's x || d for a number-or-null x
OrElse(x, d) == IF x = None \/ x = 0 THEN d ELSE x

\* e?.status || msg.match(/\[(\d{3}) /)?.[1]
StatusOf(e) == OrElse(e.status, e.code)

\* faulty variant: a server error taken for a rate limit
isRateOrServer(e) == StatusOf(e) \in {429, 500, 503} \/ e.mark
\* status 429, or a message that names the rate limit
isRate(e) == StatusOf(e) = 429 \/ e.mark
isServer(e) == StatusOf(e) \in {500, 503}
\* faulty variant: the last attempt taken one early
isLastOffByOne(i) == i = cfg.maxRetries - 2

\* faulty variant: the last attempt is not told apart, and sleeps like the others
isLastUnchecked(i) == FALSE

isLast(i) == i = cfg.maxRetries - 1

RateJitters == {0, RateJitterMs - 1}
ServerJitters == {0, ServerJitterMs - 1}

RateDelay(e, jitter) == OrElse(parseRetryDelayMs(e), DefaultRateDelayMs) + jitter
\* faulty variant: a constant backoff
ServerDelayFlat(i, jitter) == cfg.baseRetryDelay + jitter

ServerDelay(i, jitter) == cfg.baseRetryDelay * (2 ^ i) + jitter

----------------------------------------------------------------------------
(* The constructor: every option a scenario leaves out takes its default. *)

Options(n, batchSize, concurrentBatches, itemTimeoutMs, batchTimeoutMs, maxRetries, outs, lats) ==
    [n |-> n, batchSize |-> batchSize, batchDelayMs |-> DefaultBatchDelayMs,
     itemTimeoutMs |-> itemTimeoutMs, batchTimeoutMs |-> batchTimeoutMs,
     maxRetries |-> maxRetries, baseRetryDelay |-> DefaultBaseRetryDelay,
     concurrentBatches |-> concurrentBatches, outs |-> outs, lats |-> lats]

BatchOuts == {Ok, NullResult, Hang, SyncThrow, E429, E500}
RetryOuts == {Ok, NullResult, Hang, SyncThrow, E429, E429Hint, E429Zero, E500, E503Msg, EFatal}

\* how long a processor call takes: well within every timeout, or longer than
\* the short item timeout
Latencies == {1000, 25000}

\* timeouts shorter than the default rate-limit delay, the batch's below the item's
ShortTimeouts == [item |-> 20000, batch |-> 10000]

Scenarios ==
    \* sequential batches, one attempt per item
    { Options(n, bs, DefaultConcurrentBatches, ShortTimeouts.item, bt, 1, BatchOuts, Latencies) :
        n \in {0, MaxItems}, bs \in {1, DefaultBatchSize},
        bt \in {ShortTimeouts.batch, DefaultBatchTimeoutMs} }
    \cup
    \* groups of two concurrent batches, one attempt per item
    { Options(MaxItems, 1, 2, ShortTimeouts.item, bt, 1, BatchOuts, Latencies) :
        bt \in {ShortTimeouts.batch, DefaultBatchTimeoutMs} }
    \cup
    \* one batch of two items, two attempts per item
    { Options(DefaultBatchSize, DefaultBatchSize, DefaultConcurrentBatches, ShortTimeouts.item,
              DefaultBatchTimeoutMs, 2, BatchOuts, Latencies) }
    \cup
    \* one item with the default options and every kind of error
    { Options(1, DefaultBatchSize, DefaultConcurrentBatches, DefaultItemTimeoutMs,
              DefaultBatchTimeoutMs, DefaultMaxRetries, RetryOuts, {1000}) }
    \cup
    \* one item and no attempt allowed
    { Options(1, DefaultBatchSize, DefaultConcurrentBatches, DefaultItemTimeoutMs,
              DefaultBatchTimeoutMs, 0, RetryOuts, {1000}) }
    \cup
    \* a batch size of zero, sequential and concurrent
    { Options(n, 0, cb, ShortTimeouts.item, DefaultBatchTimeoutMs, 1, {Ok}, {1000}) :
        n \in {0, MaxItems}, cb \in {DefaultConcurrentBatches, 2} }

----------------------------------------------------------------------------
(* Batches *)

Items == 1..cfg.n
\* items.slice(i, i + batchSize) is empty when batchSize is 0: no batch has an item
NumBatches == IF cfg.batchSize = 0 THEN 0 ELSE (cfg.n + cfg.batchSize - 1) \div cfg.batchSize

\* faulty variant: the slices taken one item early
BatchOfShifted(k) == IF cfg.batchSize = 0 THEN 0 ELSE (k \div cfg.batchSize) + 1

\* the batch whose slice holds item k
BatchOf(k) == IF cfg.batchSize = 0 THEN 0 ELSE ((k - 1) \div cfg.batchSize) + 1
BatchItems(b) == {k \in Items : BatchOf(k) = b}
Sequential == ~(cfg.concurrentBatches > 1)

\* the batches started together at position i of the main loop
GroupAt(i) ==
    IF Sequential THEN {IF cfg.batchSize = 0 THEN 1 ELSE (i \div cfg.batchSize) + 1}
    ELSE {b \in 1..NumBatches : i < b /\ b <= i + cfg.concurrentBatches}

\* faulty variant: the loop over the groups advances by one batch
StepOne == IF Sequential THEN cfg.batchSize ELSE 1

\* the step of the main loop: i += batchSize, i += concurrentBatches
Step == IF Sequential THEN cfg.batchSize ELSE cfg.concurrentBatches
Total == IF Sequential THEN cfg.n ELSE NumBatches

Min(S) == CHOOSE x \in S : \A y \in S : x <= y

RECURSIVE SeqOfSet(_)
\* the elements of a set of numbers in increasing order
SeqOfSet(S) == IF S = {} THEN <<>> ELSE <<Min(S)>> \o SeqOfSet(S \ {Min(S)})

Idle == [pc |-> "idle", i |-> 0, at |-> None, out |-> Ok]

\* no estimation is made during a run of processBatches
NoEstimation == [pc |-> "none"]

\* no table is in use and calculateUserAbility is not called
NoDb == [source |-> "none"]
NoCall == [pc |-> "none"]

Init ==
    /\ cfg \in Scenarios
    /\ now = 0
    /\ last429CooldownUntil = 0
    /\ loop = [k \in AllItems |-> Idle]
    /\ tr = [k \in AllItems |-> <<>>]
    /\ wrap = [k \in AllItems |-> "idle"]
    /\ itemTimer = [k \in AllItems |-> None]
    /\ batchSt = [b \in AllBatches |-> "idle"]
    /\ batchTimer = [b \in AllBatches |-> None]
    /\ batchRes = [b \in AllBatches |-> <<>>]
    /\ pb = [pc |-> "init", i |-> 0, wake |-> None, waits |-> <<>>]
    /\ allResults = <<>>
    /\ est = NoEstimation
    /\ db = NoDb
    /\ userAbility = NoCall

----------------------------------------------------------------------------
(* Scheduling: microtasks before macrotasks *)

\* faulty variant: the item timeout does not settle the wrapper
SettledByProcessor(k) == wrap[k] \in {"ok", "null"}

\* the promise of processItemWithTimeout has resolved
Settled(k) == wrap[k] \in {"ok", "null", "timeout"}

\* Promise.allSettled over the batch's items has resolved and the race is undecided
CanCollect(b) == batchSt[b] = "pending" /\ \A k \in BatchItems(b) : Settled(k)

\* Promise.all over the group's batches has resolved
GroupComplete ==
    /\ ~Sequential
    /\ pb.pc = "await"
    /\ \A b \in GroupAt(pb.i) : batchSt[b] \in {"done", "timeout"}

MicrotaskPending ==
    \/ \E k \in AllItems : loop[k].pc = "ready"
    \/ \E b \in AllBatches : CanCollect(b)
    \/ GroupComplete

PendingTimes ==
    {loop[k].at : k \in {x \in AllItems : loop[x].pc \in {"op", "sleep", "cooldown"} /\ loop[x].at # None}}
    \cup {itemTimer[k] : k \in {x \in AllItems : wrap[x] = "pending"}}
    \cup {batchTimer[b] : b \in {x \in AllBatches : batchSt[x] = "pending"}}
    \cup (IF pb.pc = "delay" THEN {pb.wake} ELSE {})

\* the event loop sleeps until the next timer or settlement
Advance ==
    /\ ~MicrotaskPending
    /\ PendingTimes # {}
    /\ Min(PendingTimes) > now
    /\ now' = Min(PendingTimes)
    /\ UNCHANGED <<est, appVars, cfg, last429CooldownUntil, loop, tr, wrap, itemTimer,
                   batchSt, batchTimer, batchRes, pb, allResults>>

----------------------------------------------------------------------------
(* retryWithBackoff and ensureCooldown *)

\* faulty variant: the loop test left out, every iteration attempts
EnterAttemptUntested(i) ==
    IF now < last429CooldownUntil
    THEN [pc |-> "cooldown", i |-> i, at |-> last429CooldownUntil, out |-> Ok]
    ELSE [pc |-> "ready", i |-> i, at |-> None, out |-> Ok]

\* the loop test, ensureCooldown, then the await before operation(): the loop is
\* over, or the call waits for the cooldown read now, or goes on to invoke the
\* operation
EnterAttempt(i) ==
    IF ~(i < cfg.maxRetries)
    THEN [pc |-> "thrown", i |-> i, at |-> None, out |-> MaxRetriesExceeded]
    ELSE IF now < last429CooldownUntil
    THEN [pc |-> "cooldown", i |-> i, at |-> last429CooldownUntil, out |-> Ok]
    ELSE [pc |-> "ready", i |-> i, at |-> None, out |-> Ok]

\* the history of one attempt: invoked at t0 under the cooldown cd0 with outcome out,
\* settled at t1; after a failure the delay computed, the cooldown written, and
\* whether the loop slept the delay to try again
Attempt(t0, out) ==
    [t0 |-> t0, cd0 |-> last429CooldownUntil, out |-> out, t1 |-> None,
     delay |-> None, cd |-> None, slept |-> FALSE]

\* processPromise: what the retry loop resolved with, null for what it threw
ProcessPromise(thrown, v) == IF thrown THEN Null ELSE v

\* Promise.race in processItemWithTimeout, the process promise settling with v
RaceSettles(k, v) ==
    IF wrap[k] = "pending"
    THEN [wrap EXCEPT ![k] = IF v = Null THEN "null" ELSE "ok"]
    ELSE wrap

\* the retry loop ends: return v, or throw
Finish(k, thrown, v, done, rec) ==
    /\ loop' = [loop EXCEPT ![k] = [pc |-> IF thrown THEN "thrown" ELSE "resolved",
                                    i |-> @.i, at |-> None, out |-> rec.out]]
    /\ tr' = [tr EXCEPT ![k] = Append(done, rec)]
    /\ wrap' = RaceSettles(k, ProcessPromise(thrown, v))

\* setTimeout(r, delay), then the next iteration
Backoff(k, delay, done, rec) ==
    /\ loop' = [loop EXCEPT ![k] = [pc |-> "sleep", i |-> @.i, at |-> now + delay, out |-> rec.out]]
    /\ tr' = [tr EXCEPT ![k] = Append(done, rec)]
    /\ wrap' = wrap

\* faulty variant: every error is retried until the attempts run out
RetriesAnyError(e, i) == ~isLast(i)

\* whether a failed attempt number i is followed by another one
Retries(e, i) == IF isRate(e) THEN ~isLast(i) ELSE isServer(e) /\ ~isLast(i)

\* the catch block: the attempt rec of item k, after the attempts done, failed with e
Catch(k, e, done, rec) ==
    LET i == loop[k].i IN
    IF isRate(e)
    THEN \E jitter \in RateJitters :
           LET delay == RateDelay(e, jitter)
               r == [rec EXCEPT !.t1 = now, !.delay = delay, !.cd = now + delay,
                                !.slept = Retries(e, i)]
           IN /\ last429CooldownUntil' = now + delay
              /\ IF Retries(e, i) THEN Backoff(k, delay, done, r)
                                  ELSE Finish(k, TRUE, Null, done, r)
    ELSE IF ~Retries(e, i)
    THEN /\ last429CooldownUntil' = last429CooldownUntil
         /\ Finish(k, TRUE, Null, done, [rec EXCEPT !.t1 = now])
    ELSE \E jitter \in ServerJitters :
           LET delay == ServerDelay(i, jitter)
               r == [rec EXCEPT !.t1 = now, !.delay = delay, !.slept = TRUE]
           IN /\ last429CooldownUntil' = last429CooldownUntil
              /\ Backoff(k, delay, done, r)

\* operation() is invoked: the processor call is in flight, or throws at once
Invoke(k) ==
    /\ loop[k].pc = "ready"
    /\ \E o \in cfg.outs :
         IF o.kind = "throw"
         THEN Catch(k, o, tr[k], Attempt(now, o))
         ELSE /\ \E lat \in cfg.lats :
                   loop' = [loop EXCEPT ![k] = [pc |-> "op", i |-> @.i,
                              at |-> IF o.kind = "hang" THEN None ELSE now + lat, out |-> o]]
              /\ tr' = [tr EXCEPT ![k] = Append(@, Attempt(now, o))]
              /\ UNCHANGED <<last429CooldownUntil, wrap>>
    /\ UNCHANGED <<est, appVars, cfg, now, itemTimer, batchSt, batchTimer, batchRes, pb, allResults>>

\* the processor call of item k settles
OpSettles(k) ==
    /\ ~MicrotaskPending
    /\ loop[k].pc = "op"
    /\ loop[k].at = now
    /\ LET o == loop[k].out
           done == SubSeq(tr[k], 1, Len(tr[k]) - 1)
           rec == tr[k][Len(tr[k])]
       IN IF IsError(o)
          THEN Catch(k, o, done, rec)
          ELSE /\ Finish(k, FALSE, IF o.kind = "ok" THEN k ELSE Null, done, [rec EXCEPT !.t1 = now])
               /\ UNCHANGED last429CooldownUntil
    /\ UNCHANGED <<est, appVars, cfg, now, itemTimer, batchSt, batchTimer, batchRes, pb, allResults>>

\* the backoff sleep of item k ends: i++, then ensureCooldown
SleepWakes(k) ==
    /\ ~MicrotaskPending
    /\ loop[k].pc = "sleep"
    /\ loop[k].at = now
    /\ loop' = [loop EXCEPT ![k] = EnterAttempt(@.i + 1)]
    /\ wrap' = IF loop[k].i + 1 < cfg.maxRetries THEN wrap ELSE RaceSettles(k, ProcessPromise(TRUE, Null))
    /\ UNCHANGED <<est, appVars, cfg, now, last429CooldownUntil, tr, itemTimer,
                   batchSt, batchTimer, batchRes, pb, allResults>>

\* the sleep inside ensureCooldown ends: ensureCooldown returns
CooldownWakes(k) ==
    /\ ~MicrotaskPending
    /\ loop[k].pc = "cooldown"
    /\ loop[k].at = now
    /\ loop' = [loop EXCEPT ![k] = [pc |-> "ready", i |-> @.i, at |-> None, out |-> Ok]]
    /\ UNCHANGED <<est, appVars, cfg, now, last429CooldownUntil, tr, wrap, itemTimer,
                   batchSt, batchTimer, batchRes, pb, allResults>>

----------------------------------------------------------------------------
(* BatchProcessor *)

\* the item timeout of item k fires first in the race: the wrapper returns null
ItemTimeoutFires(k) ==
    /\ ~MicrotaskPending
    /\ wrap[k] = "pending"
    /\ itemTimer[k] = now
    /\ wrap' = [wrap EXCEPT ![k] = "timeout"]
    /\ UNCHANGED <<est, appVars, cfg, now, last429CooldownUntil, loop, tr, itemTimer,
                   batchSt, batchTimer, batchRes, pb, allResults>>

\* batch.map(processItemWithTimeout) for the batches of S, and each batch's timer
StartBatches(S) ==
    LET ks == UNION {BatchItems(b) : b \in S} IN
    /\ wrap' = [k \in AllItems |-> IF k \notin ks THEN wrap[k]
                                   ELSE IF 0 < cfg.maxRetries THEN "pending" ELSE "null"]
    /\ itemTimer' = [k \in AllItems |-> IF k \in ks THEN now + cfg.itemTimeoutMs ELSE itemTimer[k]]
    /\ loop' = [k \in AllItems |-> IF k \in ks THEN EnterAttempt(0) ELSE loop[k]]
    /\ batchSt' = [b \in AllBatches |-> IF b \in S THEN "pending" ELSE batchSt[b]]
    /\ batchTimer' = [b \in AllBatches |-> IF b \in S THEN now + cfg.batchTimeoutMs ELSE batchTimer[b]]

RECURSIVE ByCompletion(_)
ByCompletion(S) ==
    IF S = {} THEN <<>>
    ELSE LET first == CHOOSE k \in S : \A j \in S :
                        tr[k][Len(tr[k])].t1 < tr[j][Len(tr[j])].t1
                        \/ (tr[k][Len(tr[k])].t1 = tr[j][Len(tr[j])].t1 /\ k <= j)
         IN <<first>> \o ByCompletion(S \ {first})

\* faulty variant: the values pushed as the items complete
ResultsInCompletionOrder(b) == ByCompletion({k \in BatchItems(b) : wrap[k] = "ok"})

\* the filter and map over the settled results: the non-null values, in the batch's order
SuccessfulResults(b) == SeqOfSet({k \in BatchItems(b) : wrap[k] = "ok"})

\* the wait between batches (or groups), or the end of the loop and the return
\* a wait between batches: after the batch (group) at position i, from now until to
Wait(to) == [i |-> pb.i, from |-> now, to |-> to]

\* faulty variant: the wait between batches left out
AfterBatchNoWait ==
    IF pb.i + Step < Total
    THEN [pc |-> "delay", i |-> pb.i, wake |-> now, waits |-> Append(pb.waits, Wait(now))]
    ELSE [pc |-> "done", i |-> pb.i, wake |-> None, waits |-> pb.waits]

AfterBatch ==
    IF pb.i + Step < Total
    THEN [pc |-> "delay", i |-> pb.i, wake |-> now + cfg.batchDelayMs,
          waits |-> Append(pb.waits, Wait(now + cfg.batchDelayMs))]
    ELSE [pc |-> "done", i |-> pb.i, wake |-> None, waits |-> pb.waits]

\* faulty variant: no try/catch around the race: the batch timeout rejects processBatches
BatchFailedUncaught == [pc |-> "rejected", i |-> pb.i, wake |-> None, waits |-> pb.waits]

\* the catch block of a batch whose race the batch timeout won
BatchFailed == AfterBatch

\* the loop that builds the batches of processConcurrentBatches never ends:
\* i += batchSize leaves i < items.length as it is
BuildsBatchesForever == ~Sequential /\ cfg.batchSize = 0 /\ cfg.n > 0

\* processBatches is called
ProcessBatches ==
    /\ pb.pc = "init"
    /\ IF BuildsBatchesForever
       THEN /\ pb' = [pb EXCEPT !.pc = "batches"]
            /\ UNCHANGED <<wrap, itemTimer, loop, batchSt, batchTimer>>
       ELSE IF Total > 0
       THEN /\ StartBatches(GroupAt(0))
            /\ pb' = [pb EXCEPT !.pc = "await"]
       ELSE /\ pb' = [pb EXCEPT !.pc = "done"]
            /\ UNCHANGED <<wrap, itemTimer, loop, batchSt, batchTimer>>
    /\ UNCHANGED <<est, appVars, cfg, now, last429CooldownUntil, tr, batchRes, allResults>>

\* the race of batch b resolves with the settled results of its items
CollectBatch(b) ==
    /\ CanCollect(b)
    /\ batchSt' = [batchSt EXCEPT ![b] = "done"]
    /\ IF Sequential
       THEN /\ allResults' = allResults \o SuccessfulResults(b)
            /\ pb' = AfterBatch
            /\ UNCHANGED batchRes
       ELSE /\ batchRes' = [batchRes EXCEPT ![b] = SuccessfulResults(b)]
            /\ UNCHANGED <<pb, allResults>>
    /\ UNCHANGED <<est, appVars, cfg, now, last429CooldownUntil, loop, tr, wrap, itemTimer, batchTimer>>

\* the batch timeout of batch b fires first in the race
BatchTimeoutFires(b) ==
    /\ ~MicrotaskPending
    /\ batchSt[b] = "pending"
    /\ batchTimer[b] = now
    \* timers of the same duration fire in the order they were created
    /\ \A k \in BatchItems(b) : ~(wrap[k] = "pending" /\ itemTimer[k] = now)
    /\ batchSt' = [batchSt EXCEPT ![b] = "timeout"]
    /\ IF Sequential
       THEN /\ pb' = BatchFailed
            /\ UNCHANGED batchRes
       ELSE /\ batchRes' = [batchRes EXCEPT ![b] = <<>>]
            /\ UNCHANGED pb
    /\ UNCHANGED <<est, appVars, cfg, now, last429CooldownUntil, loop, tr, wrap, itemTimer, batchTimer, allResults>>

RECURSIVE Flat(_, _)
\* concurrentResults.flat(): what the batches of S returned, in batch order
Flat(res, S) == IF S = {} THEN <<>> ELSE res[Min(S)] \o Flat(res, S \ {Min(S)})

\* Promise.all over the group resolves
GroupDone ==
    /\ GroupComplete
    /\ allResults' = allResults \o Flat(batchRes, GroupAt(pb.i))
    /\ pb' = AfterBatch
    /\ UNCHANGED <<est, appVars, cfg, now, last429CooldownUntil, loop, tr, wrap, itemTimer,
                   batchSt, batchTimer, batchRes>>

\* the wait between batches ends: the next batch (or group) starts
BatchDelayEnds ==
    /\ ~MicrotaskPending
    /\ pb.pc = "delay"
    /\ pb.wake = now
    \* of a loop that does not advance, MaxRounds iterations are followed
    /\ Step > 0 \/ Len(pb.waits) < MaxRounds
    /\ StartBatches(GroupAt(pb.i + Step))
    /\ pb' = [pc |-> "await", i |-> pb.i + Step, wake |-> None, waits |-> pb.waits]
    /\ UNCHANGED <<est, appVars, cfg, now, last429CooldownUntil, tr, batchRes, allResults>>

----------------------------------------------------------------------------

Next ==
    \/ ProcessBatches
    \/ Advance
    \/ \E k \in AllItems : Invoke(k)
    \/ \E k \in AllItems : OpSettles(k)
    \/ \E k \in AllItems : SleepWakes(k)
    \/ \E k \in AllItems : CooldownWakes(k)
    \/ \E k \in AllItems : ItemTimeoutFires(k)
    \/ \E b \in AllBatches : CollectBatch(b)
    \/ \E b \in AllBatches : BatchTimeoutFires(b)
    \/ GroupDone
    \/ BatchDelayEnds

Spec == Init /\ [][Next]_vars

\* the event loop runs a pending task, or the first timer that is due, as long
\* as there is one
LiveSpec == Spec /\ WF_vars(Next)

----------------------------------------------------------------------------
(* Vocabulary of the properties *)

Done == pb.pc = "done"
Range(s) == {s[p] : p \in 1..Len(s)}
LoopEnded(k) == loop[k].pc \in {"resolved", "thrown"}

\* what the retry loop of item k resolved with (Null also when it threw or has not ended)
LoopValue(k) == IF loop[k].pc = "resolved" /\ loop[k].out.kind = "ok" THEN k ELSE Null

Increasing(s) == \A p, q \in 1..Len(s) : p < q => s[p] < s[q]

RECURSIVE OwnTimeOf(_)
\* the time the attempts of a history take by themselves: the processor calls and
\* the backoff sleeps, without any wait for a cooldown
OwnTimeOf(h) ==
    IF h = <<>> THEN 0
    ELSE LET a == h[1] IN
         (a.t1 - a.t0) + (IF a.slept THEN a.delay ELSE 0) + OwnTimeOf(Tail(h))

OwnTime(k) == OwnTimeOf(tr[k])

MinTimeout == IF cfg.itemTimeoutMs < cfg.batchTimeoutMs THEN cfg.itemTimeoutMs ELSE cfg.batchTimeoutMs

\* the time at which the processor resolved with the output of item k
OkAt(k) == tr[k][Len(tr[k])].t1

----------------------------------------------------------------------------
(* C1: when every item, run by itself, either succeeds or fails (null, a fatal
   error, retries exhausted) within the timeouts, processBatches returns
   exactly the outputs of the succeeding items, N - F of them, in input order:
   a failing item never removes a succeeding sibling's output. *)
C1_FailingItemsLeaveSiblingsAlone ==
    (Done /\ \A k \in Items : LoopEnded(k) /\ OwnTime(k) < MinTimeout)
    => LET F == {k \in Items : LoopValue(k) = Null}
       IN /\ Len(allResults) = cfg.n - Cardinality(F)
          /\ allResults = SeqOfSet(Items \ F)

(* C2: every item whose processor resolved with a non-null value within its
   item timeout and retry budget is in the list processBatches returns,
   whatever the batch timeout. *)
C2_NoPartialWorkLost ==
    Done => \A k \in Items : wrap[k] = "ok" => k \in Range(allResults)

(* C3: processBatches never rejects; a batch that timed out contributes nothing,
   every batch is still started, and the successful results of every batch
   that was collected are returned. *)
C3_NeverRejects ==
    /\ pb.pc # "rejected"
    /\ Done => \A k \in Items :
                 /\ wrap[k] # "idle"
                 /\ batchSt[BatchOf(k)] = "timeout" => k \notin Range(allResults)
                 /\ (batchSt[BatchOf(k)] = "done" /\ wrap[k] = "ok") => k \in Range(allResults)

\* a batch timed out, and the output of an item of a later batch is returned
C3_Witness ==
    /\ Done
    /\ \E k \in Items : \E b \in 1..NumBatches :
         b < BatchOf(k) /\ batchSt[b] = "timeout" /\ k \in Range(allResults)

(* C4: an item whose item timeout fired before its processing settled is absent
   from the result, processBatches does not reject, and the other items of
   its batch that succeeded are in the result. *)
C4_TimedOutItemOnlyExcludesItself ==
    Done => \A k \in Items : wrap[k] = "timeout" =>
              /\ k \notin Range(allResults)
              /\ pb.pc # "rejected"
              /\ \A j \in BatchItems(BatchOf(k)) : wrap[j] = "ok" => j \in Range(allResults)

(* C5: the list processBatches accumulates is in input order, without gaps or
   placeholders, whatever the order in which items and batches finish. *)
C5_OrderPreserved ==
    /\ Increasing(allResults)
    /\ Null \notin Range(allResults)

\* two outputs are returned in input order though the later item finished first
C5_Witness ==
    /\ Done
    /\ \E p, q \in 1..Len(allResults) :
         p < q /\ OkAt(allResults[p]) > OkAt(allResults[q])

----------------------------------------------------------------------------
(* Properties of retryWithBackoff, over the history of each call's attempts *)

Attempts(k) == 1..Len(tr[k])
Failed(a) == a.t1 # None /\ IsError(a.out)
RateFailed(a) == Failed(a) /\ isRate(a.out)
ServerFailed(a) == Failed(a) /\ ~isRate(a.out) /\ isServer(a.out)
FatalFailed(a) == Failed(a) /\ ~isRate(a.out) /\ ~isServer(a.out)

\* the call rejected with the error of its attempt p, without sleeping after it
Rethrown(k, p) ==
    /\ Len(tr[k]) = p
    /\ loop[k].pc = "thrown"
    /\ loop[k].out = tr[k][p].out
    /\ ~tr[k][p].slept

\* the call slept the delay of its failed attempt p before any further attempt
SleptThenRetried(k, p) ==
    /\ tr[k][p].slept
    /\ IF Len(tr[k]) = p
       THEN loop[k].pc \in {"sleep", "cooldown", "ready"}
       ELSE tr[k][p + 1].t0 >= tr[k][p].t1 + tr[k][p].delay

(* C6: operation() is only ever invoked at or after the current value of the
   shared cooldown timestamp. *)
C6_CooldownGate ==
    \A k \in AllItems : \A p \in Attempts(k) : tr[k][p].t0 >= tr[k][p].cd0

(* C7: with maxRetries >= 4, three attempts failing with a rate-limit error are
   followed by a fourth attempt, and when that one succeeds the call resolves
   with its value, after four invocations and at least the sum of the three
   delays after the first invocation. *)
C7_ThreeRateLimitsThenSuccess ==
    \A k \in Items :
      (cfg.maxRetries >= 4 /\ Len(tr[k]) >= 3 /\ \A p \in 1..3 : RateFailed(tr[k][p]))
      => /\ SleptThenRetried(k, 3)
         /\ (Len(tr[k]) >= 4 /\ tr[k][4].out = Ok /\ tr[k][4].t1 # None)
            => /\ loop[k].pc = "resolved"
               /\ LoopValue(k) = k
               /\ Len(tr[k]) = 4
               /\ tr[k][4].t1 - tr[k][1].t0 >= tr[k][1].delay + tr[k][2].delay + tr[k][3].delay

C7_Witness ==
    \E k \in Items :
      /\ cfg.maxRetries >= 4
      /\ Len(tr[k]) = 4
      /\ \A p \in 1..3 : RateFailed(tr[k][p])
      /\ tr[k][4].out = Ok
      /\ loop[k].pc = "resolved"

\* the retry delay a rate-limit error asks for, else the default
HintedDelay(e) == IF e.retry # None THEN e.retry * 1000 ELSE DefaultRateDelayMs

(* C8: a rate-limit failure computes delay = (the retry delay parsed from the
   message, else 30000) + jitter in [0, 1500), sets the cooldown to now + delay
   on every such failure, then re-throws without sleeping on the last attempt
   and otherwise sleeps that delay and attempts again. *)
C8_RateLimitDelay ==
    \A k \in Items : \A p \in Attempts(k) :
      RateFailed(tr[k][p]) =>
        /\ tr[k][p].delay - HintedDelay(tr[k][p].out) \in 0..(RateJitterMs - 1)
        /\ tr[k][p].cd = tr[k][p].t1 + tr[k][p].delay
        /\ IF p = cfg.maxRetries THEN Rethrown(k, p) ELSE SleptThenRetried(k, p)

(* C9: a 500/503 failure at attempt i that is not the last sleeps a delay in
   [baseDelay*2^i, baseDelay*2^i + 400) and attempts again; when every attempt
   fails so, the operation is invoked exactly maxRetries times and the error of
   the last attempt is re-thrown without a sleep. *)
C9_ServerErrorBackoff ==
    \A k \in Items :
      /\ \A p \in Attempts(k) :
           (ServerFailed(tr[k][p]) /\ p < cfg.maxRetries) =>
             /\ tr[k][p].delay - cfg.baseRetryDelay * (2 ^ (p - 1)) \in 0..(ServerJitterMs - 1)
             /\ tr[k][p].cd = None
             /\ SleptThenRetried(k, p)
      /\ (tr[k] # <<>> /\ \A p \in Attempts(k) : ServerFailed(tr[k][p]))
         => /\ Len(tr[k]) <= cfg.maxRetries
            /\ LoopEnded(k) <=> Len(tr[k]) = cfg.maxRetries
            /\ LoopEnded(k) => Rethrown(k, cfg.maxRetries)

C9_Witness ==
    \E k \in Items :
      /\ cfg.maxRetries >= 3
      /\ Len(tr[k]) = cfg.maxRetries
      /\ \A p \in Attempts(k) : ServerFailed(tr[k][p])
      /\ loop[k].pc = "thrown"

(* C10: an error that is neither a rate-limit signal nor a 500/503 is re-thrown
   after that attempt, with no sleep and no further invocation, whatever
   remains of the retry budget. *)
C10_FatalNotRetried ==
    \A k \in Items : \A p \in Attempts(k) :
      FatalFailed(tr[k][p]) =>
        /\ Rethrown(k, p)
        /\ tr[k][p].delay = None
        /\ tr[k][p].cd = None

C10_Witness ==
    \E k \in Items : \E p \in Attempts(k) :
      /\ p >= 2
      /\ p < cfg.maxRetries
      /\ FatalFailed(tr[k][p])
      /\ loop[k].pc = "thrown"

----------------------------------------------------------------------------
\* every attempt the call is allowed was made and failed with a retryable error
AllAttemptsRetryable(k) ==
    /\ cfg.maxRetries >= 1
    /\ Len(tr[k]) = cfg.maxRetries
    /\ \A p \in Attempts(k) : RateFailed(tr[k][p]) \/ ServerFailed(tr[k][p])

(* C11 as stated: when every one of the maxRetries attempts fails with a
   retryable error (429 or 500/503), the call fails with the final
   "Max retries exceeded" error. *)
C11_ExhaustedRaisesMaxRetries ==
    \A k \in Items :
      AllAttemptsRetryable(k) => (LoopEnded(k) => loop[k].out = MaxRetriesExceeded)

(* C11 amended: when every one of the maxRetries >= 1 attempts fails with a
   retryable error, the call fails with the error of the last attempt, without
   a sleep after it; the call fails with "Max retries exceeded" exactly when
   maxRetries <= 0, without any invocation of the operation. *)
C11_ExhaustedRethrowsLastError ==
    \A k \in Items :
      /\ AllAttemptsRetryable(k) => Rethrown(k, cfg.maxRetries)
      /\ (LoopEnded(k) /\ loop[k].out = MaxRetriesExceeded)
           <=> (wrap[k] # "idle" /\ cfg.maxRetries <= 0 /\ tr[k] = <<>>)

\* four attempts, rate-limited and server errors, and the last one's error thrown
C11_Witness ==
    \E k \in Items :
      /\ cfg.maxRetries >= 4
      /\ AllAttemptsRetryable(k)
      /\ \E p \in Attempts(k) : RateFailed(tr[k][p])
      /\ ServerFailed(tr[k][cfg.maxRetries])
      /\ loop[k].pc = "thrown"

----------------------------------------------------------------------------
(* Properties of the work in flight *)

\* the group of batches started together that item k belongs to
GroupOf(k) ==
    IF Sequential THEN BatchOf(k) ELSE ((BatchOf(k) - 1) \div cfg.concurrentBatches) + 1

\* processItemWithTimeout was called for item k
Started(k) == wrap[k] # "idle"

\* item k has work in flight: a processor invocation about to be made or not
\* settled, a retry sleep or a cooldown wait
InFlight(k) == loop[k].pc \in {"ready", "op", "sleep", "cooldown"}

\* the earliest time at which a timeout fired for item k: its item timeout or
\* the timeout of its batch (None: neither has fired)
TimedOutAt(k) ==
    LET fired == (IF wrap[k] = "timeout" THEN {itemTimer[k]} ELSE {})
                 \cup (IF batchSt[BatchOf(k)] = "timeout" THEN {batchTimer[BatchOf(k)]} ELSE {})
    IN IF fired = {} THEN None ELSE Min(fired)

(* C12: once an item of a batch (in concurrent mode: of a group of batches) is
   started, no item of an earlier batch (group) has a processor invocation, a
   retry sleep or a cooldown wait pending, whatever the outcome of the earlier
   batch, item timeout and batch timeout included. *)
C12_BatchResolvedBeforeNext ==
    \A j, k \in Items : (GroupOf(j) < GroupOf(k) /\ Started(k)) => ~InFlight(j)

(* C13: at every instant the number of items with work in flight is at most
   batchSize * concurrentBatches, and at most batchSize in sequential mode. *)
C13_BoundedLoad ==
    Cardinality({k \in Items : InFlight(k)})
      <= (IF Sequential THEN cfg.batchSize ELSE cfg.batchSize * cfg.concurrentBatches)

(* C15: once the item timeout or the enclosing batch timeout has fired for an
   item, the processor is not invoked again for that item and the item's retry
   loop does not write the shared cooldown timestamp. *)
C15_TimedOutItemNotRetried ==
    \A k \in Items : \A p \in Attempts(k) :
      TimedOutAt(k) # None =>
        /\ tr[k][p].t0 <= TimedOutAt(k)
        /\ tr[k][p].cd # None => tr[k][p].t1 <= TimedOutAt(k)

----------------------------------------------------------------------------
(* Properties of the waits between batches *)

\* the number of groups of batches started together (in sequential mode: of batches)
NumGroups ==
    IF Sequential THEN NumBatches
    ELSE (NumBatches + cfg.concurrentBatches - 1) \div cfg.concurrentBatches

\* the time at which batch b was started
StartedAt(b) == batchTimer[b] - cfg.batchTimeoutMs

(* C14: a run over G batches (in concurrent mode: G groups) makes exactly G - 1
   waits of batchDelayMs, one after every batch (group) except the last one, a
   batch that failed or timed out included; the next batch (group) starts only
   when the wait is over, and there is no wait after the last one.  The number
   of batches is ceil(N / batchSize), for a batchSize of at least 1. *)
C14_PacingSleeps ==
    cfg.batchSize > 0 =>
      /\ Len(pb.waits) <= (IF NumGroups > 0 THEN NumGroups - 1 ELSE 0)
      /\ Done => Len(pb.waits) = (IF NumGroups > 0 THEN NumGroups - 1 ELSE 0)
      /\ \A g \in 1..Len(pb.waits) :
           LET w == pb.waits[g] IN
           /\ w.i = (g - 1) * Step
           /\ w.to - w.from = cfg.batchDelayMs
           /\ \A b \in GroupAt(w.i) : batchSt[b] \in {"done", "timeout"}
           /\ \A b \in GroupAt(w.i + Step) :
                IF now < w.to THEN batchSt[b] = "idle"
                ELSE batchSt[b] # "idle" => StartedAt(b) >= w.to

\* a run of three batches is over: two waits, the first one after a batch that timed out
C14_Witness ==
    /\ Done
    /\ NumGroups = MaxItems
    /\ Len(pb.waits) = MaxItems - 1
    /\ batchSt[1] = "timeout"
    /\ batchSt[2] = "done"

----------------------------------------------------------------------------
(***************************************************************************)
(* The ability estimator (mle-logic.ts).  Its numbers are fixed-point:     *)
(* an ability, a level or a bound of the domain is a multiple of 0.0001    *)
(* (the step h of the confidence interval), a probability a multiple of    *)
(* 2^-27, a logarithm a multiple of 10^-7.  Math.exp and Math.log are      *)
(* computed by their series to that precision.                             *)
(***************************************************************************)

AbilityOne == 10 ^ 4
Q == 2 ^ 27
LogOne == 10 ^ 7
NegInfinity == -(2 ^ 30)

\* a * b / Q, rounded down, for a and b below 2^29: the product by halves of 14 bits
MulQ(a, b) ==
    LET a1 == a \div (2 ^ 14)
        a0 == a % (2 ^ 14)
        b1 == b \div (2 ^ 14)
        b0 == b % (2 ^ 14)
        mid == a1 * b0 + a0 * b1
    IN 2 * a1 * b1 + (mid \div (2 ^ 13)) + (((mid % (2 ^ 13)) * (2 ^ 14) + a0 * b0) \div Q)

\* long division of a * b by d <= 2^28, without a product above 2^31: the i low
\* digits of b in base 4 are still to be multiplied, <<q, r>> are the quotient
\* and the remainder for the digits above them
MulDivFrom[a \in Nat, b \in Nat, d \in Nat, i \in Nat, q \in Nat, r \in Nat] ==
    IF i = 0 THEN q
    ELSE LET digit == (b \div (4 ^ (i - 1))) % 4
             rem == 4 * r + digit * (a % d)
         IN MulDivFrom[a, b, d, i - 1, 4 * q + digit * (a \div d) + (rem \div d), rem % d]

\* a * b / d, rounded down, for b < 2^30
MulDiv(a, b, d) == MulDivFrom[a, b, d, 15, 0, 0]

\* sum + term + term * r / n + term * r^2 / (n * (n + 1)) + ...: exp(r) for
\* 0 <= r <= 1 from n = 1, term = 1, sum = 0
ExpTerms[r \in Nat, n \in Nat, term \in Nat, sum \in Nat] ==
    IF n > 13 THEN sum ELSE ExpTerms[r, n + 1, MulQ(term, r) \div n, sum + term]

\* exp(-1)
ExpOfMinusOne == MulDiv(Q, Q, ExpTerms[Q, 1, Q, 0])

\* acc * exp(-n) for a natural number n
ExpOfMinus[n \in Nat, acc \in Nat] ==
    IF n = 0 THEN acc ELSE ExpOfMinus[n - 1, MulQ(acc, ExpOfMinusOne)]

\* Math.exp(t) for t <= 0
Exp(t) ==
    LET n == (AbilityOne - 1 - t) \div AbilityOne
        r == t + n * AbilityOne
    IN ExpOfMinus[n, ExpTerms[MulDiv(Q, r, AbilityOne), 1, Q, 0]]

Log2Floor[v \in Nat] ==
    IF v < 2 THEN 0 ELSE IF v < 4 THEN 1 ELSE IF v < 8 THEN 2 ELSE IF v < 16 THEN 3
    ELSE 4 + Log2Floor[v \div 16]

\* sum + power / n + power * y2 / (n + 2) + ...: atanh(y) from n = 1,
\* power = y, sum = 0, y2 = y^2
AtanhTerms[y2 \in Nat, n \in Nat, power \in Nat, sum \in Nat] ==
    IF n > 21 THEN sum ELSE AtanhTerms[y2, n + 2, MulQ(power, y2), sum + (power \div n)]

\* 2 * atanh(y) = ln((1 + y) / (1 - y)), for 0 <= y <= 1/3
LnRatio(y) == 2 * AtanhTerms[MulQ(y, y), 1, y, 0]

\* ln(2) = ln((1 + 1/3) / (1 - 1/3))
LnTwo == LnRatio(Q \div 3)

\* Math.log of the probability-scaled v >= 1: ln(v / Q)
Ln(v) ==
    LET k == Log2Floor[v]
        m == IF k <= 27 THEN v * (2 ^ (27 - k)) ELSE v \div (2 ^ (k - 27))
        \* m / Q in [1, 2): taken as 2 * (m / 2Q) above 3/2
        up == 2 * m > 3 * Q
        one == IF up THEN 2 * Q ELSE Q
        e == k - 27 + (IF up THEN 1 ELSE 0)
        ln2s == MulDiv(LnTwo, (IF e >= 0 THEN e ELSE -e) * LogOne, Q)
        y == MulDiv(IF m >= one THEN m - one ELSE one - m, Q \div 2, (m + one) \div 2)
        frac == MulDiv(LnRatio(y), LogOne, Q)
    IN (IF e >= 0 THEN ln2s ELSE -ln2s) + (IF m >= one THEN frac ELSE -frac)

\* Math.log of the ability-scaled d >= 1: ln(d / AbilityOne)
LnAbility(d) == Ln(d * (2 ^ 14)) - Ln(AbilityOne * (2 ^ 14))

\* Math.log(epsilon) for epsilon = 1e-10, and Math.log(6)
LogOfEpsilon == -10 * Ln(10 * Q)
LogOfSix == Ln(6 * Q)

\* Math.log(Math.max(likelihood, epsilon)): epsilon is below 2^-27
LogFloored(l) == IF l < 1 THEN LogOfEpsilon ELSE Ln(l)

\* faulty variant: the sigmoid of -z
sigmoidOfOpposite(z) ==
    IF z >= 0 THEN MulDiv(Exp(-z), Q, Q + Exp(-z)) ELSE MulDiv(Q, Q, Q + Exp(z))

\* 1 / (1 + Math.exp(-z)); where exp(-z) > 1, through exp(z) = 1 / exp(-z)
sigmoid(z) ==
    IF z >= 0 THEN MulDiv(Q, Q, Q + Exp(-z)) ELSE MulDiv(Exp(z), Q, Q + Exp(z))

\* one iteration of logLikelihood: the term of an item with ability - level = z,
\* at its maximum (full) or below it
ItemLogLikelihood(z, full) ==
    LET prob_y == sigmoid(z)
        likelihood == IF full THEN prob_y ELSE prob_y - sigmoid(z - AbilityOne)
    IN LogFloored(likelihood)

----------------------------------------------------------------------------
(* The inputs of the estimator *)

MaxEvals == 2

Levels == -1..4
ItemMaxes == 1..4
Evaluation == [level : Levels, predictedMaxScore : ItemMaxes]
EvaluationLists == UNION {[1..n -> Evaluation] : n \in 0..MaxEvals}

\* ALPHA, BETA_PARAM, and the domain [xMin, xMax]: the prior of calculateUserAbility,
\* another BETA_PARAM, another domain
Priors == {[ALPHA |-> 2, BETA_PARAM |-> p[1], xMin |-> p[2] * AbilityOne, xMax |-> p[3] * AbilityOne] :
             p \in {<<5, 0, 4>>, <<2, 0, 4>>, <<5, 1, 3>>}}
GridPoints == {1, 2, 8, 16}

\* gridPoints when the caller passes none, as calculateUserAbility does, with its prior
DefaultGridPoints == 500
DefaultPrior == [ALPHA |-> 2, BETA_PARAM |-> 5, xMin |-> 0, xMax |-> 4 * AbilityOne]
\* the lists estimated on the default grid: two items of maximum 4
DefaultGridLists == [1..2 -> [level : 0..4, predictedMaxScore : {4}]]

\* a prior that is symmetric about the middle of its domain, with a grid of an odd
\* number of intervals: the middle of the domain is between two grid points
SymmetricGrid ==
    [prior |-> [ALPHA |-> 2, BETA_PARAM |-> 2, xMin |-> 0, xMax |-> 3 * AbilityOne],
     gridPoints |-> 3]

\* every ability a grid can hold is a multiple of GridUnit, on the default grid
\* of DefaultGridUnit
GridUnit == AbilityOne \div 8
DefaultGridUnit == (DefaultPrior.xMax - DefaultPrior.xMin) \div DefaultGridPoints
\* every value of ability - level, or of ability - (level + 1)
Arguments ==
    {j * GridUnit : j \in (-6 * 8)..(5 * 8)}
    \cup {j * DefaultGridUnit : j \in (-5 * (AbilityOne \div DefaultGridUnit))..(5 * (AbilityOne \div DefaultGridUnit))}
\* every distance of an ability to an end of the domain, and the width of the domain
Distances ==
    {j * GridUnit : j \in 1..(4 * 8)} \cup {j * DefaultGridUnit : j \in 1..DefaultGridPoints}

\* the functions above, evaluated once at every argument of the grids
SigmoidAt == [z \in Arguments |-> sigmoid(z)]
ItemLogLikelihoodAt ==
    [z \in Arguments \ {-6 * AbilityOne}, full \in BOOLEAN |-> ItemLogLikelihood(z, full)]
LogAt == [d \in Distances |-> LnAbility(d)]

----------------------------------------------------------------------------
(* logLikelihood, logPrior, logPosterior *)

logLikelihood(ability, evaluations) ==
    LET sum[i \in 0..Len(evaluations)] ==
          IF i = 0 THEN 0
          ELSE LET k == evaluations[i].level
                   n == evaluations[i].predictedMaxScore
               IN sum[i - 1] + ItemLogLikelihoodAt[ability - k * AbilityOne, k = n]
    IN sum[Len(evaluations)]

\* the two tests of logPrior: x is in the domain and not at one of its ends
InsideDomain(x, xMin, xMax) == (xMin <= x /\ x <= xMax) /\ ~(x = xMin \/ x = xMax)

logPrior(ability, ALPHA, BETA_PARAM, xMin, xMax) ==
    LET x == ability IN
    IF ~InsideDomain(x, xMin, xMax) THEN NegInfinity
    ELSE LogOfSix + LogAt[x - xMin] - LogAt[xMax - xMin]
         + (BETA_PARAM - 1) * (LogAt[xMax - x] - LogAt[xMax - xMin])

isFinite(v) == v # NegInfinity

\* faulty variant: the log-prior alone
PlusPriorAlone(ll, lp) == lp

\* the sum of a finite log-likelihood and a log-prior
PlusPrior(ll, lp) == IF isFinite(lp) THEN ll + lp ELSE NegInfinity

logPosterior(ability, evaluations, ALPHA, BETA_PARAM, xMin, xMax) ==
    PlusPrior(logLikelihood(ability, evaluations), logPrior(ability, ALPHA, BETA_PARAM, xMin, xMax))

----------------------------------------------------------------------------
(* estimateAbilityByGridSearchMAP *)

\* faulty variant: the first of the valid indices with the least value
MaxItemLeast(values, validIndices) ==
    LET less(max, current) == IF values[current] < values[max] THEN current ELSE max
        reduce[from \in 1..Len(validIndices), to \in 1..Len(validIndices)] ==
          IF from = to THEN validIndices[from]
          ELSE less(reduce[from, (from + to) \div 2], reduce[((from + to) \div 2) + 1, to])
    IN reduce[1, Len(validIndices)]

\* faulty variant: the last of the valid indices with the greatest value
MaxItemLast(values, validIndices) ==
    LET greater(max, current) == IF values[current] >= values[max] THEN current ELSE max
        reduce[from \in 1..Len(validIndices), to \in 1..Len(validIndices)] ==
          IF from = to THEN validIndices[from]
          ELSE greater(reduce[from, (from + to) \div 2], reduce[((from + to) \div 2) + 1, to])
    IN reduce[1, Len(validIndices)]

\* validIndices.reduce((max, current) => current.value > max.value ? current : max):
\* the first of the valid indices with the greatest value.  The callback is
\* associative, and the fold is taken by halves
MaxItem(values, validIndices) ==
    LET greater(max, current) == IF values[current] > values[max] THEN current ELSE max
        reduce[from \in 1..Len(validIndices), to \in 1..Len(validIndices)] ==
          IF from = to THEN validIndices[from]
          ELSE greater(reduce[from, (from + to) \div 2], reduce[((from + to) \div 2) + 1, to])
    IN reduce[1, Len(validIndices)]

\* faulty variant: the mean of the prior
modeOfMean(ALPHA, BETA_PARAM, xMin, xMax) ==
    xMin + ((xMax - xMin) * ALPHA) \div (ALPHA + BETA_PARAM)

\* the mode of the prior, returned for an empty list
mode(ALPHA, BETA_PARAM, xMin, xMax) ==
    xMin + ((xMax - xMin) * (ALPHA - 1)) \div (ALPHA + BETA_PARAM - 2)

\* faulty variant: the last ability of the grid when no log-posterior is finite
bestAbilityOrXMax(abilities, logPosteriors, validIndices, xMin) ==
    IF Len(validIndices) = 0 THEN abilities[Len(abilities)]
    ELSE abilities[MaxItem(logPosteriors, validIndices)]

\* the ability of the greatest finite log-posterior; xMin when there is none
bestAbility(abilities, logPosteriors, validIndices, xMin) ==
    IF Len(validIndices) = 0 THEN xMin
    ELSE abilities[MaxItem(logPosteriors, validIndices)]

estimateAbilityByGridSearchMAP(evaluations, ALPHA, BETA_PARAM, xMin, xMax, gridPoints) ==
    IF Len(evaluations) = 0
    THEN [bestAbility |-> mode(ALPHA, BETA_PARAM, xMin, xMax),
          abilities |-> <<>>, logPriors |-> <<>>, logLikelihoods |-> <<>>, logPosteriors |-> <<>>]
    ELSE LET abilities == [i \in 1..(gridPoints + 1) |->
                             xMin + ((i - 1) * (xMax - xMin)) \div gridPoints]
             logPriors == [i \in 1..(gridPoints + 1) |->
                             logPrior(abilities[i], ALPHA, BETA_PARAM, xMin, xMax)]
             logLikelihoods == [i \in 1..(gridPoints + 1) |-> logLikelihood(abilities[i], evaluations)]
             logPosteriors == [i \in 1..(gridPoints + 1) |-> PlusPrior(logLikelihoods[i], logPriors[i])]
             valid(i) == isFinite(logPosteriors[i])
             validIndices == SelectSeq([i \in 1..(gridPoints + 1) |-> i], valid)
         IN [bestAbility |-> bestAbility(abilities, logPosteriors, validIndices, xMin),
             abilities |-> abilities, logPriors |-> logPriors,
             logLikelihoods |-> logLikelihoods, logPosteriors |-> logPosteriors]

----------------------------------------------------------------------------
(* calculateBayesianConfidenceInterval *)

H == 1
InfoOne == 10 ^ 4
ZScore == (196 * AbilityOne) \div 100

\* the log-posterior at x as an IEEE value, by its kind ("finite", "+Inf", "-Inf"
\* or "NaN"): the log-likelihood is finite, the log-prior finite inside the domain
KindOfPosterior(x, xMin, xMax) == IF InsideDomain(x, xMin, xMax) THEN "finite" ELSE "-Inf"
Negated(a) == IF a = "+Inf" THEN "-Inf" ELSE IF a = "-Inf" THEN "+Inf" ELSE a
Added(a, b) ==
    IF a = "NaN" \/ b = "NaN" \/ {a, b} = {"+Inf", "-Inf"} THEN "NaN"
    ELSE IF a # "finite" THEN a
    ELSE b

\* the square root of n >= 1, rounded down
SqrtFrom[n \in Nat, x \in Nat] ==
    LET y == (x + n \div x) \div 2 IN IF y >= x THEN x ELSE SqrtFrom[n, y]
Sqrt(n) == SqrtFrom[n, 2 ^ ((Log2Floor[n] \div 2) + 1)]

\* minus the second derivative of the log-likelihood term of one evaluation
ItemInformation(z, full) ==
    LET prob_y == SigmoidAt[z]
        prob_y1 == SigmoidAt[z - AbilityOne]
    IN IF ~full /\ prob_y - prob_y1 < 1 THEN 0
       ELSE MulQ(prob_y, Q - prob_y) + (IF full THEN 0 ELSE MulQ(prob_y1, Q - prob_y1))

\* minus the second derivative of the log-posterior at an ability inside the
\* domain: the value that -(lpPlusH - 2 * lpAtPeak + lpMinusH) / (h * h)
\* approximates when the three are finite
Information(ability, evaluations, BETA_PARAM, xMin, xMax) ==
    LET sum[i \in 0..Len(evaluations)] ==
          IF i = 0 THEN 0
          ELSE LET k == evaluations[i].level
                   n == evaluations[i].predictedMaxScore
               IN sum[i - 1] + ItemInformation(ability - k * AbilityOne, k = n)
        inverseSquare(d) == MulDiv(MulDiv(InfoOne * AbilityOne, 100, d), 100, d)
    IN MulDiv(sum[Len(evaluations)], InfoOne, Q)
       + inverseSquare(ability - xMin) + (BETA_PARAM - 1) * inverseSquare(xMax - ability)

\* the interval, with the estimated information: its kind and, when finite, its value
Interval(lower, upper, kind, information) ==
    [lower |-> lower, upper |-> upper, kind |-> kind, information |-> information]

\* faulty variant: the interval returned as computed
Unclamped(lower, upper, xMin, xMax, information) ==
    Interval(lower, upper, "finite", information)

\* {lower: Math.max(xMin, lower), upper: Math.min(xMax, upper)}
Clamped(lower, upper, xMin, xMax, information) ==
    Interval(IF xMin > lower THEN xMin ELSE lower,
             IF xMax < upper THEN xMax ELSE upper, "finite", information)

calculateBayesianConfidenceInterval(estimatedAbility, evaluations, ALPHA, BETA_PARAM, xMin, xMax) ==
    IF Len(evaluations) = 0 THEN Interval(xMin, xMax, "none", 0)
    ELSE
    LET lpAtPeak == KindOfPosterior(estimatedAbility, xMin, xMax)
        lpPlusH == KindOfPosterior(estimatedAbility + H, xMin, xMax)
        lpMinusH == KindOfPosterior(estimatedAbility - H, xMin, xMax)
        secondDerivative == Added(Added(lpPlusH, Negated(lpAtPeak)), lpMinusH)
        information ==
            IF secondDerivative = "finite"
            THEN Information(estimatedAbility, evaluations, BETA_PARAM, xMin, xMax)
            ELSE 0
    IN IF secondDerivative # "finite" \/ information <= 0
       THEN Interval(xMin, xMax, Negated(secondDerivative), information)
       ELSE LET marginOfError == Sqrt(MulDiv(ZScore * ZScore, InfoOne, information))
                lower == estimatedAbility - marginOfError
                upper == estimatedAbility + marginOfError
            IN Clamped(lower, upper, xMin, xMax, information)

----------------------------------------------------------------------------
(* One estimation, as calculateUserAbility makes it: the point estimate, then
   its confidence interval *)

\* no BatchProcessor is at work
NoBatchProcessor ==
    /\ cfg = Options(0, DefaultBatchSize, DefaultConcurrentBatches, DefaultItemTimeoutMs,
                     DefaultBatchTimeoutMs, DefaultMaxRetries, {Ok}, {1000})
    /\ now = 0
    /\ last429CooldownUntil = 0
    /\ loop = [k \in AllItems |-> Idle]
    /\ tr = [k \in AllItems |-> <<>>]
    /\ wrap = [k \in AllItems |-> "idle"]
    /\ itemTimer = [k \in AllItems |-> None]
    /\ batchSt = [b \in AllBatches |-> "idle"]
    /\ batchTimer = [b \in AllBatches |-> None]
    /\ batchRes = [b \in AllBatches |-> <<>>]
    /\ pb = [pc |-> "init", i |-> 0, wake |-> None, waits |-> <<>>]
    /\ allResults = <<>>

EstInit ==
    /\ est \in [pc : {"input"}, evaluations : EvaluationLists, prior : Priors,
                gridPoints : GridPoints, result : {<<>>}, interval : {<<>>}]
               \cup [pc : {"input"}, evaluations : DefaultGridLists, prior : {DefaultPrior},
                     gridPoints : {DefaultGridPoints}, result : {<<>>}, interval : {<<>>}]
               \cup [pc : {"input"}, evaluations : EvaluationLists, prior : {SymmetricGrid.prior},
                     gridPoints : {SymmetricGrid.gridPoints}, result : {<<>>}, interval : {<<>>}]
    /\ db = NoDb
    /\ userAbility = NoCall
    /\ NoBatchProcessor

EstimateAbility ==
    /\ est.pc = "input"
    /\ est' = [est EXCEPT !.pc = "estimated",
                 !.result = estimateAbilityByGridSearchMAP(est.evaluations, est.prior.ALPHA,
                              est.prior.BETA_PARAM, est.prior.xMin, est.prior.xMax, est.gridPoints)]
    /\ UNCHANGED <<batchVars, appVars>>

ConfidenceInterval ==
    /\ est.pc = "estimated"
    /\ est' = [est EXCEPT !.pc = "done",
                 !.interval = calculateBayesianConfidenceInterval(est.result.bestAbility,
                                est.evaluations, est.prior.ALPHA, est.prior.BETA_PARAM,
                                est.prior.xMin, est.prior.xMax)]
    /\ UNCHANGED <<batchVars, appVars>>

EstNext == EstimateAbility \/ ConfidenceInterval

EstSpec == EstInit /\ [][EstNext]_vars

-----------------------------------------------------------------------------
(* The stored evaluations and calculateUserAbility: the evaluation of an item
   or a thread stores a level, with or without a predicted maximum, and
   calculateUserAbility reads the rows of one user and one criterion *)

Sources == {"github", "slack-thread"}

\* the maximum of an item without a prediction
DefaultMaxGithub == 2
DefaultMaxSlack == 4

\* the levels of the responses and the maxima of the predictions
RawLevels == {-1, 1, 3}
PredictedMaxScores == {2, 3}

\* the items (pull requests and issues, or threads) the user has taken part in
StoredItems == 1..MaxEvals

NoRow == [stored |-> FALSE]

\* predictedMaxScore is maxScorePredictions[criteria]: None when the map has no
\* entry for the criterion, and the test `predictedMaxScore &&` fails
adjustEvaluationWithPredictions(evaluation, predictedMaxScore) ==
    IF evaluation.level < 0
    THEN [evaluation EXCEPT !.level = 0, !.incidentFlag = TRUE]
    ELSE IF predictedMaxScore # None /\ evaluation.level > predictedMaxScore
    THEN [evaluation EXCEPT !.level = predictedMaxScore, !.surpriseFlag = TRUE]
    ELSE evaluation

\* the evaluation of the response, which sets no flag: evaluable unless false,
\* the flags only when true
processJsonData(level, evaluable) ==
    [stored |-> TRUE, level |-> level, evaluable |-> evaluable,
     surpriseFlag |-> FALSE, incidentFlag |-> FALSE]

processJsonDataWithPredictions(level, evaluable, predictedMaxScore) ==
    adjustEvaluationWithPredictions(processJsonData(level, evaluable), predictedMaxScore)

AbilityInit ==
    /\ db \in [source : Sources, evaluations : {[i \in StoredItems |-> NoRow]},
               predictions : {[i \in StoredItems |-> None]}]
    /\ userAbility = NoCall
    /\ est = NoEstimation
    /\ NoBatchProcessor

\* processSingleItemEvaluation and saveEvaluationResults: the stored prediction
\* of the item or, when there is none, the one predicted and saved now (None
\* when that step failed or predicted nothing); the response parsed with it
EvaluateItem(i, predicted, level, evaluable) ==
    /\ db.source = "github"
    /\ userAbility = NoCall
    /\ LET maxScorePredictions == IF db.predictions[i] # None THEN db.predictions[i] ELSE predicted
       IN db' = [db EXCEPT !.predictions[i] = maxScorePredictions,
                           !.evaluations[i] = processJsonDataWithPredictions(level, evaluable,
                                                                             maxScorePredictions)]
    /\ UNCHANGED <<batchVars, est, userAbility>>

\* evaluateSpecificThread: the prediction saved when one was parsed, the
\* response parsed by parseEvaluationResponse and saved
EvaluateThread(i, predicted, level, evaluable) ==
    /\ db.source = "slack-thread"
    /\ userAbility = NoCall
    /\ db' = [db EXCEPT !.predictions[i] = IF predicted # None THEN predicted ELSE @,
                        !.evaluations[i] = processJsonData(level, evaluable)]
    /\ UNCHANGED <<batchVars, est, userAbility>>

\* getUserEvaluationsByCriteria, getSlackThreadEvaluationsByUserAndCriteria: the
\* rows of the user, each with the predicted maximum of its item or null
StoredEvaluations ==
    LET stored(i) == db.evaluations[i].stored
        item == SelectSeq([i \in StoredItems |-> i], stored)
    IN [j \in 1..Len(item) |->
          [level |-> db.evaluations[item[j]].level,
           evaluable |-> db.evaluations[item[j]].evaluable,
           predictedMaxScore |-> db.predictions[item[j]]]]

\* mleData: level and predictedMaxScore ?? 4 (slack-thread), ?? 2 (github)
MleData(validEvaluations, source) ==
    [j \in 1..Len(validEvaluations) |->
       [level |-> validEvaluations[j].level,
        predictedMaxScore |->
          IF validEvaluations[j].predictedMaxScore # None
          THEN validEvaluations[j].predictedMaxScore
          ELSE IF source = "slack-thread" THEN DefaultMaxSlack ELSE DefaultMaxGithub]]

Thrown == [pc |-> "thrown", estimated |-> FALSE]
Returned(ability, confidenceInterval, estimated, mleData) ==
    [pc |-> "returned", estimated |-> estimated, mleData |-> mleData,
     ability |-> ability, confidenceInterval |-> confidenceInterval]

\* {ability, confidenceInterval} of an estimate
AbilityWithInterval(ability, confidenceInterval, mleData) ==
    Returned(ability, [lower |-> confidenceInterval.lower, upper |-> confidenceInterval.upper],
             TRUE, mleData)

\* the interval around the estimate
IntervalOfAbility(ability, mleData, prior) ==
    AbilityWithInterval(ability,
                        calculateBayesianConfidenceInterval(ability, mleData, prior.ALPHA,
                                                            prior.BETA_PARAM, prior.xMin, prior.xMax),
                        mleData)

\* mapResult.bestAbility, on the default grid
AbilityOfMleData(mleData, prior) ==
    IntervalOfAbility(estimateAbilityByGridSearchMAP(mleData, prior.ALPHA, prior.BETA_PARAM, prior.xMin,
                                                     prior.xMax, DefaultGridPoints).bestAbility,
                      mleData, prior)

NoAbility == Returned(0, [lower |-> 0, upper |-> 0], FALSE, <<>>)

\* faulty variant: the evaluable evaluations estimated without the test for none
AbilityOfValidUntested(validEvaluations, source) ==
    AbilityOfMleData(MleData(validEvaluations, source), DefaultPrior)

\* ability 0 when no evaluation is evaluable
AbilityOfValid(validEvaluations, source) ==
    IF Len(validEvaluations) = 0 THEN NoAbility
    ELSE AbilityOfMleData(MleData(validEvaluations, source), DefaultPrior)

\* ability 0 when there is no evaluation; the evaluable ones of the others
AbilityOfEvaluations(evaluations, source) ==
    LET evaluable(evaluation) == evaluation.evaluable
    IN IF Len(evaluations) = 0 THEN NoAbility
       ELSE AbilityOfValid(SelectSeq(evaluations, evaluable), source)

\* identified: the identifiers of the source are given and, for a thread, the
\* Slack user is found
calculateUserAbility(source, identified) ==
    IF source \notin Sources \/ ~identified THEN Thrown
    ELSE AbilityOfEvaluations(StoredEvaluations, source)

\* one call, of the source whose tables are in use or of an unknown source: what
\* it returned or threw, kept with the arguments of the call
CalculateUserAbility(source, identified) ==
    /\ userAbility = NoCall
    /\ userAbility' = calculateUserAbility(source, identified)
                       @@ [source |-> source, identified |-> identified]
    /\ UNCHANGED <<batchVars, est, db>>

AbilityNext ==
    \/ \E i \in StoredItems, predicted \in PredictedMaxScores \cup {None},
          level \in RawLevels, evaluable \in BOOLEAN :
         \/ EvaluateItem(i, predicted, level, evaluable)
         \/ EvaluateThread(i, predicted, level, evaluable)
    \/ \E source \in {db.source, "unknown"}, identified \in BOOLEAN :
         CalculateUserAbility(source, identified)

AbilitySpec == AbilityInit /\ [][AbilityNext]_vars

----------------------------------------------------------------------------
(* Properties of the estimate *)

\* an estimation of est.evaluations has been made
Estimated == est.pc \in {"estimated", "done"}

\* the degenerate case: a grid was built and none of its log-posteriors is finite
NoFinitePosterior ==
    /\ Len(est.evaluations) > 0
    /\ \A i \in 1..Len(est.result.logPosteriors) : ~isFinite(est.result.logPosteriors[i])

(* C16: for every evaluation list, empty or not, and every domain xMin < xMax,
   the bestAbility returned by estimateAbilityByGridSearchMAP lies in
   [xMin, xMax]; when no grid point has a finite log-posterior it is exactly
   xMin. *)
C16_BestAbilityInDomain ==
    Estimated =>
      /\ est.prior.xMin <= est.result.bestAbility
      /\ est.result.bestAbility <= est.prior.xMax
      /\ NoFinitePosterior => est.result.bestAbility = est.prior.xMin

\* an estimation over a grid that holds the two ends of the domain only
C16_Witness ==
    /\ Estimated
    /\ NoFinitePosterior
    /\ Len(est.result.abilities) = 2
    /\ est.result.bestAbility = est.prior.xMin

\* the four arrays of the result that trace the grid
Traces(result) ==
    <<result.abilities, result.logPriors, result.logLikelihoods, result.logPosteriors>>

(* C17: for an empty evaluation list estimateAbilityByGridSearchMAP returns
   bestAbility = xMin + (xMax - xMin) * (ALPHA - 1) / (ALPHA + BETA - 2) and
   builds no grid (every trace array is empty), and
   calculateBayesianConfidenceInterval returns exactly {lower: xMin, upper: xMax}. *)
C17_EmptyListPriorMode ==
    (Estimated /\ Len(est.evaluations) = 0) =>
      LET p == est.prior IN
      /\ (est.result.bestAbility - p.xMin) * (p.ALPHA + p.BETA_PARAM - 2)
           = (p.xMax - p.xMin) * (p.ALPHA - 1)
      /\ \A trace \in {Traces(est.result)[i] : i \in 1..4} : trace = <<>>
      /\ est.pc = "done" => (est.interval.lower = p.xMin /\ est.interval.upper = p.xMax)

\* the default prior on the default domain and no evaluation: the mode is 0.8
C17_Witness ==
    /\ est.pc = "done"
    /\ Len(est.evaluations) = 0
    /\ est.prior.BETA_PARAM = 5
    /\ est.prior.xMax - est.prior.xMin = 4 * AbilityOne
    /\ 10 * est.result.bestAbility = 8 * AbilityOne
    /\ est.interval.upper - est.interval.lower = 4 * AbilityOne

----------------------------------------------------------------------------
(* Properties of the confidence interval *)

\* information <= 0 || !isFinite(information), for a list that is not empty
NoInformation ==
    \/ est.interval.kind \in {"NaN", "+Inf", "-Inf"}
    \/ est.interval.kind = "finite" /\ est.interval.information <= 0

(* C18: for every evaluation list and the bestAbility estimated on it, the
   interval of calculateBayesianConfidenceInterval satisfies
   xMin <= lower <= bestAbility <= upper <= xMax; when the estimated
   information is <= 0 or not finite, the bestAbility = xMin of the degenerate
   fallback included, the interval is exactly [xMin, xMax]. *)
C18_IntervalWithinDomain ==
    est.pc = "done" =>
      /\ est.prior.xMin <= est.interval.lower
      /\ est.interval.lower <= est.result.bestAbility
      /\ est.result.bestAbility <= est.interval.upper
      /\ est.interval.upper <= est.prior.xMax
      /\ (NoInformation \/ NoFinitePosterior) =>
           (est.interval.lower = est.prior.xMin /\ est.interval.upper = est.prior.xMax)

\* an interval cut at xMin, around an estimate inside the domain
C18_Witness ==
    /\ est.pc = "done"
    /\ est.interval.kind = "finite"
    /\ est.interval.information > 0
    /\ est.interval.lower = est.prior.xMin
    /\ est.interval.lower < est.result.bestAbility
    /\ est.result.bestAbility < est.interval.upper
    /\ est.interval.upper < est.prior.xMax

\* the interval of the degenerate fallback: the information is NaN
C18_WitnessDegenerate ==
    /\ est.pc = "done"
    /\ NoFinitePosterior
    /\ est.result.bestAbility = est.prior.xMin
    /\ est.interval.kind = "NaN"
    /\ est.interval.upper = est.prior.xMax

----------------------------------------------------------------------------
(* Relations between the estimates of two lists *)

\* the bestAbility of a list under the prior and the grid of the estimation made
BestAbilityOf(evaluations) ==
    estimateAbilityByGridSearchMAP(evaluations, est.prior.ALPHA, est.prior.BETA_PARAM,
                                   est.prior.xMin, est.prior.xMax, est.gridPoints).bestAbility

\* the lists that differ from evaluations by one item, whose level is higher
\* and still at most the maximum of the item
WithOneLevelRaised(evaluations) ==
    UNION {{[evaluations EXCEPT ![i].level = level] :
              level \in {l \in Levels : /\ l > evaluations[i].level
                                        /\ l <= evaluations[i].predictedMaxScore}} :
           i \in 1..Len(evaluations)}

(* C19: for two evaluation lists that are identical except that the level of
   one item is higher in the second (same maximum, level still at most the
   maximum), under the same alpha, beta, xMin, xMax and gridPoints, the
   bestAbility of the second list is at least the bestAbility of the first. *)
C19_MonotoneInLevel ==
    est.pc = "estimated" =>
      \A second \in WithOneLevelRaised(est.evaluations) :
        BestAbilityOf(second) >= est.result.bestAbility

\* an estimate inside the domain that a higher level of one item raises
C19_Witness ==
    /\ est.pc = "estimated"
    /\ \E second \in WithOneLevelRaised(est.evaluations) :
         BestAbilityOf(second) > est.result.bestAbility

\* every item of the list, which is not empty, has level 0
AllZero(evaluations) ==
    /\ Len(evaluations) > 0
    /\ \A i \in 1..Len(evaluations) : evaluations[i].level = 0

\* the list of the same item maxima with every level at its maximum
Perfect(evaluations) ==
    [i \in 1..Len(evaluations) |->
       [level |-> evaluations[i].predictedMaxScore,
        predictedMaxScore |-> evaluations[i].predictedMaxScore]]

(* C20: for a list of item maxima that is not empty, the list with every level
   at its maximum yields a bestAbility strictly greater than the list of the
   same maxima with every level 0, under the same alpha, beta, xMin, xMax and
   gridPoints. *)
C20_PerfectStrictlyGreater ==
    (est.pc = "estimated" /\ AllZero(est.evaluations)) =>
      BestAbilityOf(Perfect(est.evaluations)) > est.result.bestAbility

(* C20 as amended: the list with every level at its maximum yields a
   bestAbility that is never smaller than the one of the list of the same
   maxima with every level 0, and strictly greater on a grid of 16 intervals
   or more. *)
C20_PerfectNotSmaller ==
    (est.pc = "estimated" /\ AllZero(est.evaluations)) =>
      /\ BestAbilityOf(Perfect(est.evaluations)) >= est.result.bestAbility
      /\ est.gridPoints >= 16 =>
           BestAbilityOf(Perfect(est.evaluations)) > est.result.bestAbility

\* an estimate of an all-zero list on 16 intervals, inside the domain and
\* below the estimate of the perfect list
C20_Witness ==
    /\ est.pc = "estimated"
    /\ AllZero(est.evaluations)
    /\ est.gridPoints = 16
    /\ est.result.bestAbility > est.prior.xMin
    /\ BestAbilityOf(Perfect(est.evaluations)) > est.result.bestAbility

----------------------------------------------------------------------------
(* The examples of the default grid *)

\* an estimation with the prior and the grid of calculateUserAbility
OnDefaultGrid == est.prior = DefaultPrior /\ est.gridPoints = DefaultGridPoints

HighLevels == <<[level |-> 4, predictedMaxScore |-> 4], [level |-> 3, predictedMaxScore |-> 4]>>
LowLevels == <<[level |-> 0, predictedMaxScore |-> 4], [level |-> 1, predictedMaxScore |-> 4]>>

(* C21: with alpha = 2, beta = 5 and the domain [0, 4], on the default grid, the
   evaluations [{4 of 4}, {3 of 4}] give 1.5 < bestAbility <= 4 and the
   evaluations [{0 of 4}, {1 of 4}] give 0 <= bestAbility < 2.0. *)
C21_HighAndLowExamples ==
    (Estimated /\ OnDefaultGrid) =>
      /\ est.evaluations = HighLevels =>
           (2 * est.result.bestAbility > 3 * AbilityOne /\ est.result.bestAbility <= 4 * AbilityOne)
      /\ est.evaluations = LowLevels =>
           (0 <= est.result.bestAbility /\ est.result.bestAbility < 2 * AbilityOne)

\* the estimate of the high example, between 1.5 and 2.5
C21_Witness ==
    /\ Estimated
    /\ OnDefaultGrid
    /\ est.evaluations = HighLevels
    /\ 2 * est.result.bestAbility > 3 * AbilityOne
    /\ 2 * est.result.bestAbility < 5 * AbilityOne

-----------------------------------------------------------------------------
(* Properties of calculateUserAbility *)

\* the call handed a list to the estimator
HandedToEstimator == userAbility.pc = "returned" /\ userAbility.estimated

(* C22: every evaluation that calculateUserAbility hands to the estimator is
   normalized: 0 <= level <= predictedMaxScore, also when the default maximum
   stands in for a missing prediction. *)
C22_HandedEvaluationsNormalized ==
    HandedToEstimator =>
      \A j \in 1..Len(userAbility.mleData) :
        /\ 0 <= userAbility.mleData[j].level
        /\ userAbility.mleData[j].level <= userAbility.mleData[j].predictedMaxScore

-----------------------------------------------------------------------------
(* Termination *)

\* the retryWithBackoff call of item k was made
Called(k) == loop[k].pc # "idle"

\* an invocation of operation() by item k that never settles
NeverSettles(k) == loop[k].pc = "op" /\ loop[k].at = None

\* the invocations of operation() and the backoff sleeps of item k so far
Invocations(k) == Len(tr[k])
Sleeps(k) == Cardinality({p \in 1..Len(tr[k]) : tr[k][p].slept})

\* Success: the last attempt resolved; Failed: the last attempt failed, or there
\* was none; no attempt follows one that resolved
Succeeded(k) == loop[k].pc = "resolved"
Rejected(k) == loop[k].pc = "thrown"
OneTerminalState(k) ==
    /\ Succeeded(k) => (Invocations(k) > 0 /\ ~IsError(tr[k][Len(tr[k])].out))
    /\ Rejected(k) => (Invocations(k) = 0 \/ IsError(tr[k][Len(tr[k])].out))
    /\ \A p \in 1..(Len(tr[k]) - 1) : IsError(tr[k][p].out)

\* a terminal state is never left
TerminalStable(k) == LoopEnded(k) => (loop'[k] = loop[k] /\ tr'[k] = tr[k])

(* C23 as stated: every call of retryWithBackoff whose invocations of
   operation() all settle reaches Success or Failed, after at most maxRetries
   invocations and at most maxRetries - 1 sleeps of its own, and makes no
   attempt after a success. *)
C23_RetryTerminates ==
    /\ \A k \in AllItems : Called(k) ~> (LoopEnded(k) \/ NeverSettles(k))
    /\ [](\A k \in AllItems : Called(k) =>
            /\ Invocations(k) <= cfg.maxRetries
            /\ Sleeps(k) <= cfg.maxRetries - 1
            /\ OneTerminalState(k))
    /\ [][\A k \in AllItems : TerminalStable(k)]_vars

(* C23, amended: the same, with at most maxRetries - 1 sleeps when
   maxRetries >= 1 and none when maxRetries is 0. *)
C23_RetryTerminatesWithBoundedSleeps ==
    /\ \A k \in AllItems : Called(k) ~> (LoopEnded(k) \/ NeverSettles(k))
    /\ [](\A k \in AllItems : Called(k) =>
            /\ Invocations(k) <= cfg.maxRetries
            /\ Sleeps(k) <= (IF cfg.maxRetries >= 1 THEN cfg.maxRetries - 1 ELSE 0)
            /\ OneTerminalState(k))
    /\ [][\A k \in AllItems : TerminalStable(k)]_vars

\* a call that failed after maxRetries invocations and maxRetries - 1 sleeps
C23_Witness ==
    \E k \in AllItems :
      /\ Rejected(k)
      /\ cfg.maxRetries > 1
      /\ Invocations(k) = cfg.maxRetries
      /\ Sleeps(k) = cfg.maxRetries - 1

(* C24: processBatches eventually resolves, for every item list and every
   option set the constructor accepts, a batchSize of 0 included, also when the
   processor never settles. *)
C24_ProcessBatchesResolves == <>Done

-----------------------------------------------------------------------------
(* The shared cooldown *)

(* C25: last429CooldownUntil never decreases: every write, of whichever of the
   concurrent callers, leaves it at least at its previous value. *)
C25_CooldownNeverDecreases == [][last429CooldownUntil' >= last429CooldownUntil]_vars

-----------------------------------------------------------------------------
(* The two modes *)

\* no item timeout and no batch timeout fired
NoTimeoutFired ==
    /\ \A k \in Items : wrap[k] # "timeout"
    /\ \A b \in AllBatches : batchSt[b] # "timeout"

\* what the processor made of the items, whatever the mode: the outputs of the
\* items whose retry loop resolved with one, in input order
ProcessorResults == SeqOfSet({k \in Items : LoopValue(k) # Null})

(* C26: when no timeout fires, the list processBatches returns is the same
   function of the items and of the outcomes of the processor in sequential
   and in concurrent mode: the two modes return the same list for the same
   items, batchSize and processor. *)
C26_ModeEquivalence == (Done /\ NoTimeoutFired) => allResults = ProcessorResults

\* a concurrent run that returned two of the three outputs
C26_Witness ==
    /\ Done
    /\ NoTimeoutFired
    /\ ~Sequential
    /\ cfg.n = MaxItems
    /\ Len(allResults) = MaxItems - 1
    /\ allResults = ProcessorResults

-----------------------------------------------------------------------------
(* The partition of the items into batches *)

\* item k was handed to processItemWithTimeout; batch b was started
Handed(k) == wrap[k] # "idle"
BatchStarted(b) == batchSt[b] # "idle"

\* the b-th consecutive slice of length batchSize of the input
Slice(b) == {k \in Items : (b - 1) * cfg.batchSize < k /\ k <= b * cfg.batchSize}

\* the slices that have an item: ceil(N / batchSize) of them
Slices == {b \in AllBatches : Slice(b) # {}}

\* the started batches and the handed items are the slices and their items;
\* at the end they are all of them
SlicesHanded ==
    /\ \A b \in AllBatches : BatchStarted(b) => (b \in Slices /\ \A k \in Slice(b) : Handed(k))
    /\ \A k \in AllItems : Handed(k) => \E b \in Slices : k \in Slice(b) /\ BatchStarted(b)
    /\ Cardinality(Slices) * cfg.batchSize >= cfg.n
    /\ (Cardinality(Slices) - 1) * cfg.batchSize < cfg.n \/ cfg.n = 0
    /\ Done => \A b \in Slices : BatchStarted(b)

\* an item is handed over once, and a batch is started once: their timers are
\* not created again
HandedOnce ==
    /\ \A k \in AllItems : Handed(k) => (itemTimer'[k] = itemTimer[k] /\ Handed(k)')
    /\ \A b \in AllBatches : BatchStarted(b) => (batchTimer'[b] = batchTimer[b] /\ BatchStarted(b)')

\* an empty input: no invocation, no wait, an empty result
NothingForNoItems ==
    cfg.n = 0 =>
      /\ \A k \in AllItems : ~Handed(k) /\ tr[k] = <<>>
      /\ pb.waits = <<>>
      /\ allResults = <<>>

(* C27: for batchSize >= 1 the batches are the consecutive slices of length
   batchSize of the input, ceil(N / batchSize) of them, and every item is
   handed to processItemWithTimeout exactly once, in both modes; for an empty
   input the processor is never invoked, no wait is made and the result is
   empty. *)
C27_Partition ==
    /\ [](cfg.batchSize >= 1 => SlicesHanded)
    /\ [][cfg.batchSize >= 1 => HandedOnce]_vars
    /\ []NothingForNoItems

\* a run of slices of two items, the last one shorter, has ended
C27_Witness ==
    /\ Done
    /\ cfg.n = MaxItems
    /\ cfg.batchSize = DefaultBatchSize
    /\ \A k \in Items : Handed(k)
    /\ \E b \in Slices : Cardinality(Slice(b)) < cfg.batchSize

\* an empty input: the run has ended
C27_WitnessNoItems == Done /\ cfg.n = 0 /\ allResults = <<>>

-----------------------------------------------------------------------------
(* The item timeout below the batch timeout *)

\* the items of batch b that succeeded: the processor resolved with an output
\* before the item timeout
Succeeding(b) == {k \in BatchItems(b) : wrap[k] = "ok"}

\* what batch b contributed to the results, once it is over
Yield(b) ==
    IF Sequential THEN SelectSeq(allResults, LAMBDA v : v \in BatchItems(b))
    ELSE batchRes[b]

(* C28: if itemTimeoutMs < batchTimeoutMs, the batch timeout never wins the
   race of a batch: every batch yields the results of exactly its items that
   succeeded, and no batch is discarded. *)
C28_BatchTimeoutNeverWins ==
    cfg.itemTimeoutMs < cfg.batchTimeoutMs =>
      /\ \A b \in AllBatches : batchSt[b] # "timeout"
      /\ \A b \in AllBatches : batchSt[b] = "done" => Yield(b) = SeqOfSet(Succeeding(b))
      /\ Done => allResults = SeqOfSet(UNION {Succeeding(b) : b \in AllBatches})

\* a batch that lost an item to the item timeout and kept the other one
C28_Witness ==
    /\ cfg.itemTimeoutMs < cfg.batchTimeoutMs
    /\ Done
    /\ \E b \in AllBatches :
         /\ batchSt[b] = "done"
         /\ \E k \in BatchItems(b) : wrap[k] = "timeout"
         /\ Succeeding(b) # {}
         /\ Yield(b) = SeqOfSet(Succeeding(b))

-----------------------------------------------------------------------------
(* Timeouts and the cooldown *)

(* C29: an item is reported as timed out only after its processor has been
   invoked at least once: waiting in ensureCooldown for the cooldown of other
   items alone does not make processItemWithTimeout exclude the item. *)
C29_TimedOutAfterInvocation ==
    \A k \in AllItems : wrap[k] = "timeout" => Len(tr[k]) >= 1

\* the attempt of item k that this step settles, if it settles one
SettledNow(k) == tr'[k] # tr[k] /\ tr'[k][Len(tr'[k])].t1 # None

\* this step is the catch block of item k run for a rate-limit failure: status
\* 429, or a message that names the rate limit
RateLimitCaught(k) ==
    /\ SettledNow(k)
    /\ LET e == tr'[k][Len(tr'[k])].out
       IN IsError(e) /\ (StatusOf(e) = 429 \/ e.mark)

(* C30: only a rate-limit failure writes the shared cooldown: every step that
   changes last429CooldownUntil is the catch block of a rate-limit failure, and
   sets it to the time of the failure plus the delay computed; a successful
   attempt, a 500/503 or fatal failure, an item timeout, a batch timeout, and
   ensureCooldown (entered, or waking from its sleep) leave it unchanged. *)
C30_OnlyRateLimitWritesCooldown ==
    [][/\ last429CooldownUntil' # last429CooldownUntil =>
            \E k \in AllItems :
                /\ RateLimitCaught(k)
                /\ last429CooldownUntil' = now + tr'[k][Len(tr'[k])].delay
       /\ (\E k \in AllItems : SettledNow(k) /\ ~RateLimitCaught(k)) =>
            last429CooldownUntil' = last429CooldownUntil
       /\ (wrap' # wrap /\ tr' = tr) => last429CooldownUntil' = last429CooldownUntil
       /\ (batchSt' # batchSt) => last429CooldownUntil' = last429CooldownUntil
       /\ (loop' # loop /\ tr' = tr) => last429CooldownUntil' = last429CooldownUntil]_vars

\* the cooldown a rate-limit failure wrote is still the one in force after a server
\* error was caught later, in an attempt that went through ensureCooldown under it,
\* and an item timed out
C30_Witness ==
    /\ last429CooldownUntil > 0
    /\ \E k \in AllItems : wrap[k] = "timeout"
    /\ \E k, j \in AllItems :
         \E a \in 1..Len(tr[k]), c \in 1..Len(tr[j]) :
           /\ IsError(tr[k][a].out) /\ isRate(tr[k][a].out)
           /\ tr[k][a].cd = last429CooldownUntil
           /\ IsError(tr[j][c].out) /\ ~isRate(tr[j][c].out)
           /\ tr[j][c].t1 # None /\ tr[j][c].t1 > tr[k][a].t1
           /\ tr[j][c].cd0 = last429CooldownUntil

-----------------------------------------------------------------------------
(* The grid point returned *)

\* the positions of the grid whose log-posterior is finite
FinitePositions(result) ==
    {i \in 1..Len(result.logPosteriors) : isFinite(result.logPosteriors[i])}

\* the positions of the grid that hold the greatest finite log-posterior
BestPositions(result) ==
    {i \in FinitePositions(result) :
       \A j \in FinitePositions(result) : result.logPosteriors[j] <= result.logPosteriors[i]}

(* C31: for a non-empty evaluation list and gridPoints >= 2, the bestAbility
   returned by estimateAbilityByGridSearchMAP is a grid point strictly inside
   the domain (the log-prior is -Infinity at both end points), its
   log-posterior is the greatest finite log-posterior of the grid, and of the
   grid points that hold this greatest value it is the smallest. *)
C31_BestGridPoint ==
    (Estimated /\ Len(est.evaluations) > 0 /\ est.gridPoints >= 2) =>
      LET result == est.result IN
      /\ ~isFinite(result.logPriors[1])
      /\ ~isFinite(result.logPriors[est.gridPoints + 1])
      /\ est.prior.xMin < result.bestAbility
      /\ result.bestAbility < est.prior.xMax
      /\ BestPositions(result) # {}
      /\ \E i \in BestPositions(result) :
           /\ result.abilities[i] = result.bestAbility
           /\ \A j \in BestPositions(result) : result.abilities[i] <= result.abilities[j]

\* an estimate over a grid on which two points tie for the greatest log-posterior:
\* the smaller of the two is returned
C31_Witness ==
    /\ Estimated
    /\ Len(est.evaluations) > 0
    /\ est.gridPoints >= 2
    /\ \E i, j \in BestPositions(est.result) :
         /\ i < j
         /\ est.result.abilities[i] = est.result.bestAbility
         /\ est.result.abilities[j] > est.result.bestAbility

-----------------------------------------------------------------------------
(* The results of calculateUserAbility *)

\* the stored evaluations of the user that are evaluable
EvaluableItems == {i \in StoredItems : db.evaluations[i].stored /\ db.evaluations[i].evaluable}

\* the result {ability: 0, confidenceInterval: {lower: 0, upper: 0}}
ZeroAbility(call) ==
    /\ call.ability = 0
    /\ call.confidenceInterval = [lower |-> 0, upper |-> 0]

\* the result of the estimator for the list handed to it: ALPHA 2, BETA_PARAM 5,
\* the domain [0, 4]
EstimatorsAbility(call, estimate) ==
    /\ call.ability = estimate
    /\ LET interval == calculateBayesianConfidenceInterval(estimate, call.mleData, 2, 5,
                                                           0, 4 * AbilityOne)
       IN call.confidenceInterval = [lower |-> interval.lower, upper |-> interval.upper]

(* C32: calculateUserAbility never calls the estimator with an empty list: with
   no stored evaluation of the user, or none that is evaluable, it returns
   ability 0 with the confidence interval {lower: 0, upper: 0} without
   estimating; otherwise it returns the bestAbility and the interval of the
   estimator for ALPHA 2, BETA_PARAM 5 and the domain [0, 4], on one entry per
   evaluable evaluation; with an unknown source or missing identifiers it
   throws, before any estimation. *)
C32_NoEstimateWithoutEvaluations ==
    userAbility # NoCall =>
      IF userAbility.source \notin Sources \/ ~userAbility.identified
      THEN userAbility.pc = "thrown" /\ ~userAbility.estimated
      ELSE /\ userAbility.pc = "returned"
           /\ userAbility.estimated => Len(userAbility.mleData) > 0
           /\ IF EvaluableItems = {}
              THEN ~userAbility.estimated /\ ZeroAbility(userAbility)
              ELSE /\ userAbility.estimated
                   /\ Len(userAbility.mleData) = Cardinality(EvaluableItems)
                   /\ EstimatorsAbility(userAbility,
                        estimateAbilityByGridSearchMAP(userAbility.mleData, 2, 5, 0,
                                                       4 * AbilityOne, 500).bestAbility)

\* a user whose stored evaluations are all not evaluable: ability 0 and the
\* interval {0, 0}, neither the mode of the prior nor the whole domain
C32_Witness ==
    /\ userAbility # NoCall
    /\ userAbility.source \in Sources /\ userAbility.identified
    /\ \E i \in StoredItems : db.evaluations[i].stored
    /\ EvaluableItems = {}
    /\ userAbility.pc = "returned"
    /\ ZeroAbility(userAbility)
    /\ userAbility.ability # mode(2, 5, 0, 4 * AbilityOne)

====
